---------------------------- MODULE Spec2Model ----------------------------
(***************************************************************************)
(* A model of the heuristic source-pattern auditor (audit_traits.py,       *)
(* audit_arc_mutex.py).                                                    *)
(*                                                                         *)
(* Source text is modelled as a sequence of lexical tokens.  Each token    *)
(* is one position of the text; a token stands for the literal substring   *)
(* its name spells ("trait Foo" is the keyword, whitespace and the name).  *)
(* Python slices, counters and loops are modelled 0-based as in the code;  *)
(* Char(s, i) reads position i of a text.                                  *)
(***************************************************************************)
EXTENDS Integers, Sequences, FiniteSets, TLC

VARIABLES
    \* analyze_trait_necessity (audit_traits.py)
    trait_info,     \* the declaration record passed to the classifier
    usage,          \* the usage profile passed to the classifier
    verdict,        \* the classifier's return value
    cpc,            \* "idle" | "input" | "returned"
    \* extract_traits (audit_traits.py)
    content,        \* the unit's text
    match,          \* the header match of the current loop iteration
    trait_body,     \* the local trait_body of the current loop iteration
    traits,         \* the list being returned
    xpc,            \* "idle" | "loop" | "returned"
    \* check_trait_usage (audit_traits.py)
    corpus,         \* the units find_rust_files yields, in order
    trait_name,     \* the name being profiled
    uidx,           \* number of units the for loop has taken
    usage_patterns, \* the profile being accumulated
    upc,            \* "idle" | "loop" | "returned"
    \* extract_arc_mutex_usage, analyze_usage_pattern (audit_arc_mutex.py)
    file_content,   \* the unit's text
    arc_usages,     \* the occurrences extract_arc_mutex_usage returned
    aidx,           \* number of occurrences analysed
    analysis,       \* the last return value of analyze_usage_pattern
    apc,            \* "idle" | "extract" | "analyze" | "done"
    \* main of audit_traits.py and of audit_arc_mutex.py
    audit,          \* "none" | "trait" | "arc": which tool runs
    mpc,            \* "idle" | "extract" | "classify" | "scan" | "done" | "aborted"
    midx,           \* number of units the first for loop has taken
    all_traits,     \* trait audit: the declarations collected
    sidx,           \* trait audit: number of single-method traits classified
    categorized,    \* trait audit: category -> list of classified declarations
    all_usages,     \* arc audit: every occurrence, analysed
    test_usages,    \* arc audit: the occurrences in test units
    prod_usages,    \* arc audit: the occurrences in production units
    report          \* the report written at the end (empty before)

classifyVars == <<trait_info, usage, verdict, cpc>>

extractVars == <<content, match, trait_body, traits, xpc>>

usageVars == <<corpus, trait_name, uidx, usage_patterns, upc>>

arcVars == <<file_content, arc_usages, aidx, analysis, apc>>

mainVars ==
    <<audit, mpc, midx, all_traits, sidx, categorized,
      all_usages, test_usages, prod_usages, report>>

vars == <<classifyVars, extractVars, usageVars, arcVars, mainVars>>

----------------------------------------------------------------------------
(* Bounds of the model.                                                    *)

MaxMethods == 2
MaxCount == 3
MaxLen == 7
MaxUnits == 3
MaxClones == 6

MaxLines == 2

MaxAround == 4

----------------------------------------------------------------------------
(* Generic sequence helpers.                                               *)

Range(s) == {s[i] : i \in 1..Len(s)}

Min2(a, b) == IF a < b THEN a ELSE b

Max2(a, b) == IF a > b THEN a ELSE b

\* s[i] of Python: 0-based position i of text s.
Char(s, i) == s[i + 1]

\* s[a:b] of Python for 0 <= a: empty when b <= a, b clipped to len(s).
Slice(s, a, b) ==
    LET hi == Min2(b, Len(s))
    IN  IF hi <= a THEN <<>> ELSE SubSeq(s, a + 1, hi)

----------------------------------------------------------------------------
(* analyze_trait_necessity: audit_traits.py lines 125-164.                 *)

\* A reason string; the f-string's interpolated values are kept as fields.
Reason(rule, count, names) == [rule |-> rule, count |-> count, names |-> names]

AssocTypeMenu == {<<>>, <<"Item">>, <<"Item", "Error">>}

TraitInfos ==
    [method_count : 0..MaxMethods,
     assoc_types : AssocTypeMenu,
     has_generics : BOOLEAN]

Usages ==
    [impl_count : 0..MaxCount,
     dyn_usage : 0..MaxCount,
     bound_usage : 0..MaxCount]

\* Mutant: the dynamic-use rule is skipped once the generics rule has fired.
ReasonsToKeepShortCircuit(t, u) ==
    LET k1 == IF t.assoc_types # <<>>
              THEN <<Reason("Has associated types", 0, t.assoc_types)>>
              ELSE <<>>
        k2 == IF t.has_generics
              THEN Append(k1, Reason("Uses generics/lifetimes", 0, <<>>))
              ELSE IF u.dyn_usage > 0
                   THEN Append(k1, Reason("Used in trait objects", u.dyn_usage, <<>>))
                   ELSE k1
        k4 == IF u.impl_count > 1
              THEN Append(k2, Reason("Multiple implementations", u.impl_count, <<>>))
              ELSE k2
    IN  IF u.bound_usage > 2
        THEN Append(k4, Reason("Used as trait bound", u.bound_usage, <<>>))
        ELSE k4

\* reasons_to_keep after lines 134-156, in append order.
ReasonsToKeep(t, u) ==
    LET k1 == IF t.assoc_types # <<>>
              THEN <<Reason("Has associated types", 0, t.assoc_types)>>
              ELSE <<>>
        k2 == IF t.has_generics
              THEN Append(k1, Reason("Uses generics/lifetimes", 0, <<>>))
              ELSE k1
        k3 == IF u.dyn_usage > 0
              THEN Append(k2, Reason("Used in trait objects", u.dyn_usage, <<>>))
              ELSE k2
        k4 == IF u.impl_count > 1
              THEN Append(k3, Reason("Multiple implementations", u.impl_count, <<>>))
              ELSE k3
    IN  IF u.bound_usage > 2
        THEN Append(k4, Reason("Used as trait bound", u.bound_usage, <<>>))
        ELSE k4

\* Mutant: the single-method reason is never appended.
ReasonsToRemoveNoSingle(t, u) ==
    IF u.impl_count > 1 THEN <<>>
    ELSE IF u.impl_count = 0
         THEN <<Reason("No implementations found", 0, <<>>)>>
         ELSE <<Reason("Only one implementation", 0, <<>>)>>

\* reasons_to_remove after lines 130-152, in append order.
ReasonsToRemove(t, u) ==
    LET r1 == IF t.method_count = 1
              THEN <<Reason("Single method trait", 0, <<>>)>>
              ELSE <<>>
    IN  IF u.impl_count > 1 THEN r1
        ELSE IF u.impl_count = 0
             THEN Append(r1, Reason("No implementations found", 0, <<>>))
             ELSE IF u.impl_count = 1
                  THEN Append(r1, Reason("Only one implementation", 0, <<>>))
                  ELSE r1

\* Mutant: MAYBE_REMOVE already with a single remove-reason.
RecommendationOneRemove(keep, remove) ==
    IF keep = <<>> /\ remove # <<>> THEN "DEFINITELY_REMOVE"
    ELSE IF Len(keep) <= 1 /\ Len(remove) >= 1 THEN "MAYBE_REMOVE"
    ELSE "KEEP_AS_IS"

\* Mutant: MAYBE_REMOVE tolerates two keep-reasons.
RecommendationTwoKeep(keep, remove) ==
    IF keep = <<>> /\ remove # <<>> THEN "DEFINITELY_REMOVE"
    ELSE IF Len(keep) <= 2 /\ Len(remove) >= 2 THEN "MAYBE_REMOVE"
    ELSE "KEEP_AS_IS"

\* The if/elif/else of lines 158-164.
Recommendation(keep, remove) ==
    IF keep = <<>> /\ remove # <<>> THEN "DEFINITELY_REMOVE"
    ELSE IF Len(keep) <= 1 /\ Len(remove) >= 2 THEN "MAYBE_REMOVE"
    ELSE "KEEP_AS_IS"

analyze_trait_necessity(t, u) ==
    LET keep == ReasonsToKeep(t, u)
        remove == ReasonsToRemove(t, u)
    IN  [category |-> Recommendation(keep, remove),
         keep_reasons |-> keep,
         remove_reasons |-> remove]

NoTraitInfo == [method_count |-> 0, assoc_types |-> <<>>, has_generics |-> FALSE]

NoUsage == [impl_count |-> 0, dyn_usage |-> 0, bound_usage |-> 0]

NoVerdict == [category |-> "NONE", keep_reasons |-> <<>>, remove_reasons |-> <<>>]

IdleClassify ==
    /\ trait_info = NoTraitInfo
    /\ usage = NoUsage
    /\ verdict = NoVerdict
    /\ cpc = "idle"

IdleExtract ==
    /\ content = <<>>
    /\ match = [start |-> 0, end |-> 0]
    /\ trait_body = <<>>
    /\ traits = <<>>
    /\ xpc = "idle"

EmptyProfile ==
    [impl_count |-> 0, dyn_usage |-> 0, bound_usage |-> 0,
     impl_files |-> <<>>, dyn_files |-> <<>>, bound_files |-> <<>>]

IdleUsage ==
    /\ corpus = <<>>
    /\ trait_name = ""
    /\ uidx = 0
    /\ usage_patterns = EmptyProfile
    /\ upc = "idle"

NoAnalysis == [issues |-> <<>>, recommendations |-> <<>>, severity |-> "NONE"]

IdleArc ==
    /\ file_content = <<>>
    /\ arc_usages = <<>>
    /\ aidx = 0
    /\ analysis = NoAnalysis
    /\ apc = "idle"

NoCategorized ==
    [c \in {"DEFINITELY_REMOVE", "MAYBE_REMOVE", "KEEP_AS_IS"} |-> <<>>]

IdleMain ==
    /\ audit = "none"
    /\ mpc = "idle"
    /\ midx = 0
    /\ all_traits = <<>>
    /\ sidx = 0
    /\ categorized = NoCategorized
    /\ all_usages = <<>>
    /\ test_usages = <<>>
    /\ prod_usages = <<>>
    /\ report = <<>>

InitClassify ==
    /\ trait_info \in TraitInfos
    /\ usage \in Usages
    /\ verdict = NoVerdict
    /\ cpc = "input"
    /\ IdleExtract
    /\ IdleUsage
    /\ IdleArc
    /\ IdleMain

\* One call of analyze_trait_necessity(trait_info, usage).
AnalyzeTraitNecessity ==
    /\ cpc = "input"
    /\ verdict' = analyze_trait_necessity(trait_info, usage)
    /\ cpc' = "returned"
    /\ UNCHANGED <<trait_info, usage, extractVars, usageVars, arcVars, mainVars>>

NextClassify == AnalyzeTraitNecessity

SpecClassify == InitClassify /\ [][NextClassify]_vars

RuleNames(reasons) == [i \in 1..Len(reasons) |-> reasons[i].rule]

\* The in-order sublist of a rule table <<[rule, fires], ...>> whose predicate holds.
Fired(table) ==
    LET F[i \in 0..Len(table)] ==
            IF i = 0 THEN <<>>
            ELSE IF table[i].fires THEN Append(F[i - 1], table[i].rule) ELSE F[i - 1]
    IN  F[Len(table)]

KeepTable ==
    <<[rule |-> "Has associated types", fires |-> Len(trait_info.assoc_types) > 0],
      [rule |-> "Uses generics/lifetimes", fires |-> trait_info.has_generics],
      [rule |-> "Used in trait objects", fires |-> usage.dyn_usage > 0],
      [rule |-> "Multiple implementations", fires |-> usage.impl_count > 1],
      [rule |-> "Used as trait bound", fires |-> usage.bound_usage > 2]>>

RemoveTable ==
    <<[rule |-> "Single method trait", fires |-> trait_info.method_count = 1],
      [rule |-> "No implementations found", fires |-> usage.impl_count = 0],
      [rule |-> "Only one implementation", fires |-> usage.impl_count = 1]>>

ImplRulesFired ==
    Cardinality({r \in {"Multiple implementations"} : r \in Range(RuleNames(verdict.keep_reasons))}
                \cup {r \in {"No implementations found", "Only one implementation"} :
                        r \in Range(RuleNames(verdict.remove_reasons))})

\* C3: the category is DEFINITELY_REMOVE exactly when keep_reasons is empty and
\* remove_reasons is not; otherwise MAYBE_REMOVE exactly when there is at most one
\* keep-reason and at least two remove-reasons; otherwise KEEP_AS_IS; lists of equal
\* length (both empty included) give KEEP_AS_IS.
C3_DecisionTable ==
    cpc = "returned" =>
        LET k == Len(verdict.keep_reasons)
            r == Len(verdict.remove_reasons)
        IN  /\ (verdict.category = "DEFINITELY_REMOVE") <=> (k = 0 /\ r > 0)
            /\ (verdict.category = "MAYBE_REMOVE") <=>
                    (~(k = 0 /\ r > 0) /\ k <= 1 /\ r >= 2)
            /\ (verdict.category = "KEEP_AS_IS") <=>
                    (~(k = 0 /\ r > 0) /\ ~(k <= 1 /\ r >= 2))
            /\ (k = r) => verdict.category = "KEEP_AS_IS"

\* A returned verdict with one keep-reason and one remove-reason (a tie).
C3_Witness ==
    /\ cpc = "returned"
    /\ Len(verdict.keep_reasons) = 1
    /\ Len(verdict.remove_reasons) = 1
    /\ verdict.category = "KEEP_AS_IS"

\* C4: every rule is evaluated whatever the others gave: keep_reasons is the in-order
\* sublist of the five keep rules that hold, remove_reasons the in-order sublist of
\* the remove rules that hold, exactly one implementation_count rule fires, and the
\* single-member, unimplemented, unreferenced declaration is DEFINITELY_REMOVE with
\* remove-reasons single-member and no-implementations and no keep-reason.
C4_RuleIndependence ==
    cpc = "returned" =>
        /\ RuleNames(verdict.keep_reasons) = Fired(KeepTable)
        /\ RuleNames(verdict.remove_reasons) = Fired(RemoveTable)
        /\ ImplRulesFired = 1
        /\ (/\ trait_info.method_count = 1
            /\ usage.impl_count = 0
            /\ trait_info.assoc_types = <<>>
            /\ ~trait_info.has_generics
            /\ usage.dyn_usage = 0
            /\ usage.bound_usage = 0)
           => /\ verdict.category = "DEFINITELY_REMOVE"
              /\ RuleNames(verdict.remove_reasons)
                    = <<"Single method trait", "No implementations found">>
              /\ verdict.keep_reasons = <<>>

\* A returned verdict where the generics rule and the dynamic-use rule both fired.
C4_Witness ==
    /\ cpc = "returned"
    /\ trait_info.has_generics
    /\ usage.dyn_usage > 0
    /\ RuleNames(verdict.keep_reasons)
            = <<"Uses generics/lifetimes", "Used in trait objects">>
    /\ Len(verdict.remove_reasons) = 2

\* C5 as stated: implementation_count = 1 and dynamic_use_count = 1 always give
\* KEEP_AS_IS, whatever the other inputs.
C5_Original ==
    (cpc = "returned" /\ usage.impl_count = 1 /\ usage.dyn_usage = 1)
        => verdict.category = "KEEP_AS_IS"

\* C5 amended: with implementation_count = 1 and dynamic_use_count = 1 the category is
\* KEEP_AS_IS when member_count # 1 or a further keep rule fires (associated types,
\* generics, bound_use_count > 2), and MAYBE_REMOVE otherwise.
C5_Amended ==
    (cpc = "returned" /\ usage.impl_count = 1 /\ usage.dyn_usage = 1)
        => IF \/ trait_info.method_count # 1
              \/ trait_info.assoc_types # <<>>
              \/ trait_info.has_generics
              \/ usage.bound_usage > 2
           THEN verdict.category = "KEEP_AS_IS"
           ELSE verdict.category = "MAYBE_REMOVE"

\* One implementation, one dynamic use, not single-member: KEEP_AS_IS on a 1-1 tie.
C5_Witness ==
    /\ cpc = "returned"
    /\ usage.impl_count = 1
    /\ usage.dyn_usage = 1
    /\ trait_info.method_count = 2
    /\ Len(verdict.keep_reasons) = 1
    /\ verdict.category = "KEEP_AS_IS"

----------------------------------------------------------------------------
(* Text primitives: what the regular expressions and str methods of the    *)
(* code do on a token text.                                                *)

\* \s of the re module.
IsSpace(c) == c \in {" ", "\n", "\t"}

\* "trait", whitespace and the \w+ name, as one token; the name it spells.
TraitToks == {"trait Foo", "trait Bar"}

TraitNameOf(tok) == IF tok = "trait Foo" THEN "Foo" ELSE "Bar"

\* "fn", whitespace and the \w+ name (\bfn\s+(\w+)); the name it spells.
FnToks == {"fn f", "fn g", "fn h"}

FnNameOf(tok) == IF tok = "fn f" THEN "f" ELSE IF tok = "fn g" THEN "g" ELSE "h"

\* "type", whitespace and the \w+ name (type\s+(\w+)); the name it spells.
TypeToks == {"type Item", "type Error"}

TypeNameOf(tok) == IF tok = "type Item" THEN "Item" ELSE "Error"

\* ":" alone, and ":" with the space that follows it.
ColonToks == {":", ": "}

\* The least position >= from holding c, or -1.
FirstIndex(s, from, c) ==
    LET S == {i \in from..(Len(s) - 1) : Char(s, i) = c}
    IN  IF S = {} THEN -1 ELSE CHOOSE i \in S : \A j \in S : i <= j

\* The position after the longest run of whitespace starting at p (\s*).
SkipSpace(s, p) ==
    LET S == {i \in p..Len(s) : i = Len(s) \/ ~IsSpace(Char(s, i))}
    IN  CHOOSE i \in S : \A j \in S : i <= j

\* s.count(c)
Count(s, c) == Cardinality({i \in 1..Len(s) : s[i] = c})

\* s.strip()
Strip(s) ==
    LET S == {i \in 1..Len(s) : ~IsSpace(s[i])}
    IN  IF S = {} THEN <<>>
        ELSE SubSeq(s, CHOOSE i \in S : \A j \in S : i <= j,
                       CHOOSE i \in S : \A j \in S : i >= j)

\* s.split(sep): the Len-by-separator pieces, in order (always at least one).
Split(s, sep) ==
    LET seps == {i \in 1..Len(s) : s[i] = sep}
        n == Cardinality(seps)
        \* the k-th separator position (k in 1..n), 0 before the first, Len+1 after
        SepAt(k) == IF k = 0 THEN 0
                    ELSE IF k = n + 1 THEN Len(s) + 1
                    ELSE CHOOSE i \in seps : Cardinality({j \in seps : j < i}) = k - 1
    IN  [k \in 1..(n + 1) |-> SubSeq(s, SepAt(k - 1) + 1, SepAt(k) - 1)]

\* The concatenation of a sequence of sequences.
Flatten(ss) ==
    LET F[i \in 0..Len(ss)] == IF i = 0 THEN <<>> ELSE F[i - 1] \o ss[i]
    IN  F[Len(ss)]

\* ^ under re.MULTILINE: position p starts a line.
LineStart(s, p) == p = 0 \/ Char(s, p - 1) = "\n"

\* Where the pattern tried at p looks for "trait": after the indent (\s*) and the
\* optional qualifier with its whitespace.
KeywordPos(s, p) ==
    LET q0 == SkipSpace(s, p)
    IN  IF q0 < Len(s) /\ Char(s, q0) = "pub" THEN SkipSpace(s, q0 + 1) ELSE q0

\* trait_pattern (lines 26-29) tried at position p: the position after the header's
\* "{", or -1 when the pattern does not match at p.  "pub" is the visibility
\* qualifier with its optional parenthesised scope.
HeaderEnd(s, p) ==
    LET q0 == SkipSpace(s, p)
        hasPub == q0 < Len(s) /\ Char(s, q0) = "pub"
        q1 == KeywordPos(s, p)
        pubOk == ~hasPub \/ q1 > q0 + 1
        isTrait == q1 < Len(s) /\ Char(s, q1) \in TraitToks
        q2 == q1 + 1
        hasLt == q2 < Len(s) /\ Char(s, q2) = "<"
        gt == FirstIndex(s, q2 + 1, ">")
        q3 == IF hasLt THEN gt + 1 ELSE q2
        q4 == SkipSpace(s, q3)
        brace == FirstIndex(s, q4 + 1, "{")
    IN  IF ~LineStart(s, p) \/ ~pubOk \/ ~isTrait THEN -1
        ELSE IF hasLt /\ gt = -1 THEN -1
        ELSE IF q4 >= Len(s) THEN -1
        ELSE IF Char(s, q4) = "{" THEN q4 + 1
        ELSE IF Char(s, q4) \in ColonToks /\ brace # -1 THEN brace + 1
        ELSE -1

NoMatch == [start |-> -1, end |-> -1]

\* The next match of trait_pattern.finditer(content) at or after position from.
NextHeader(s, from) ==
    LET S == {p \in from..Len(s) : HeaderEnd(s, p) # -1}
    IN  IF S = {} THEN NoMatch
        ELSE LET p == CHOOSE i \in S : \A j \in S : i <= j
             IN  [start |-> p, end |-> HeaderEnd(s, p)]

----------------------------------------------------------------------------
(* extract_traits: audit_traits.py lines 17-86.                            *)

\* Mutant: the depth counter is not incremented on "{".
ScanLoopNoNesting(s, pos, brace_count) ==
    LET W[p \in pos..Len(s)] ==
            IF p < Len(s) /\ Char(s, p) # "}" THEN W[p + 1]
            ELSE IF p < Len(s) THEN p + 1 ELSE p
    IN  W[pos]

\* The while loop of lines 40-45 entered with (pos, brace_count): the value of pos
\* when it exits.
RECURSIVE ScanLoop(_, _, _)
ScanLoop(s, pos, brace_count) ==
    IF pos < Len(s) /\ brace_count > 0
    THEN ScanLoop(s, pos + 1,
                  IF Char(s, pos) = "{" THEN brace_count + 1
                  ELSE IF Char(s, pos) = "}" THEN brace_count - 1
                  ELSE brace_count)
    ELSE pos

\* Lines 33-47: trait_body for a header whose match ends at start_pos.  A position is
\* one token: when the loop runs off the end of the text with a brace still open, the
\* slice drops the last token where the code drops the last character.
TraitBody(s, start_pos) == Slice(s, start_pos, ScanLoop(s, start_pos, 1) - 1)

\* re.sub(r'//.*$', '', line): the line up to its first "//".
StripComment(line) ==
    LET c == FirstIndex(line, 0, "//")
    IN  IF c = -1 THEN line ELSE Slice(line, 0, c)

\* re.findall(r'\bfn\s+(\w+)', line): the captured names, in order.
FnMatches(line) ==
    LET fns == SelectSeq(line, LAMBDA c : c \in FnToks)
    IN  [i \in 1..Len(fns) |-> FnNameOf(fns[i])]

\* Lines 51-61: methods, accumulated line by line over the comment-stripped lines.
Methods(body) ==
    LET lines == Split(body, "\n")
    IN  Flatten([i \in 1..Len(lines) |-> FnMatches(StripComment(lines[i]))])

\* Line 64: re.findall(r'type\s+(\w+)', trait_body), on the body as extracted.
AssocTypes(body) ==
    LET ts == SelectSeq(body, LAMBDA c : c \in TypeToks)
    IN  [i \in 1..Len(ts) |-> TypeNameOf(ts[i])]

\* Lines 32-84: the dict appended for header match m of text s.
TraitRecord(file_path, s, m) ==
    LET body == TraitBody(s, m.end)
        header == Slice(s, m.start, m.end)
    IN  [name |-> TraitNameOf(Char(s, KeywordPos(s, m.start))),
         file |-> file_path,
         line |-> Count(Slice(s, 0, m.start), "\n") + 1,
         method_count |-> Len(Methods(body)),
         methods |-> Methods(body),
         assoc_types |-> AssocTypes(body),
         has_generics |-> "<" \in Range(header),
         signature |-> Strip(header),
         body |-> Strip(body)]

\* extract_traits(file_path) on a readable unit of text s: the returned list.
RECURSIVE ExtractFrom(_, _, _)
ExtractFrom(file_path, s, from) ==
    LET m == NextHeader(s, from)
    IN  IF m = NoMatch THEN <<>>
        ELSE <<TraitRecord(file_path, s, m)>> \o ExtractFrom(file_path, s, m.end)

extract_traits(file_path, s) == ExtractFrom(file_path, s, 0)

ExtractPath == "src/lib.rs"

ExtractAlphabet == {"trait Foo", "{", "}", "\n", "fn f"}

Texts(alphabet, n) == UNION {[1..k -> alphabet] : k \in 0..n}

InitExtract ==
    /\ content \in Texts(ExtractAlphabet, MaxLen)
    /\ match = [start |-> 0, end |-> 0]
    /\ trait_body = <<>>
    /\ traits = <<>>
    /\ xpc = "loop"
    /\ IdleClassify
    /\ IdleUsage
    /\ IdleArc
    /\ IdleMain

\* One iteration of the for loop of line 31: the next header match, its body scan
\* and the append of its record.
ExtractTrait ==
    /\ xpc = "loop"
    /\ NextHeader(content, match.end) # NoMatch
    /\ match' = NextHeader(content, match.end)
    /\ trait_body' = TraitBody(content, match'.end)
    /\ traits' = Append(traits, TraitRecord(ExtractPath, content, match'))
    /\ UNCHANGED <<content, xpc, classifyVars, usageVars, arcVars, mainVars>>

\* The loop is exhausted: return traits (line 86).
ExtractReturn ==
    /\ xpc = "loop"
    /\ NextHeader(content, match.end) = NoMatch
    /\ xpc' = "returned"
    /\ UNCHANGED <<content, match, trait_body, traits, classifyVars, usageVars, arcVars, mainVars>>

NextExtract == ExtractTrait \/ ExtractReturn

SpecExtract == InitExtract /\ [][NextExtract]_vars

\* sep.join(lines)
Join(lines, sep) ==
    LET F[i \in 0..Len(lines)] ==
            IF i = 0 THEN <<>>
            ELSE IF i = 1 THEN lines[1]
            ELSE F[i - 1] \o <<sep>> \o lines[i]
    IN  F[Len(lines)]

\* Unit texts laid out in lines: up to MaxLines blank, whitespace-only or comment
\* lines, a declaration of Foo (its header possibly indented) with up to MaxLines
\* body lines, and possibly a declaration of Bar after it, directly on the next line
\* or after one blank line.
LeadLineMenu == {<<>>, <<" ">>, <<"//">>}

BodyLineMenu ==
    {<<>>, <<"fn f">>, <<"type Item">>, <<"//", "fn g">>, <<"//", "type Error">>,
     <<"fn h", "//", "type Item">>, <<"type Item", "//", "fn g">>}

LinesOver(menu, n) == UNION {[1..k -> menu] : k \in 0..n}

SecondDeclMenu ==
    {<<>>,
     <<<<"trait Bar", " ", "{">>, <<"fn g">>, <<"}">>>>,
     <<<<>>, <<"trait Bar", " ", "{">>, <<"fn g">>, <<"}">>>>}

DeclTexts ==
    {Join(lead \o <<indent \o <<"trait Foo", " ", "{">>>> \o body \o <<<<"}">>>> \o second,
          "\n") :
        lead \in LinesOver(LeadLineMenu, MaxLines),
        indent \in {<<>>, <<" ">>},
        body \in LinesOver(BodyLineMenu, MaxLines),
        second \in SecondDeclMenu}

InitDecl ==
    /\ content \in DeclTexts
    /\ match = [start |-> 0, end |-> 0]
    /\ trait_body = <<>>
    /\ traits = <<>>
    /\ xpc = "loop"
    /\ IdleClassify
    /\ IdleUsage
    /\ IdleArc
    /\ IdleMain

SpecDecl == InitDecl /\ [][NextExtract]_vars

\* The header of the current iteration has a matching "}": the least position j at
\* or after the header's end holding "}" with one more "}" than "{" in [end, j].
Closers(s, e) ==
    {j \in e..(Len(s) - 1) :
        /\ Char(s, j) = "}"
        /\ Count(Slice(s, e, j + 1), "}") = Count(Slice(s, e, j + 1), "{") + 1}

MatchingClose(s, e) == CHOOSE j \in Closers(s, e) : \A k \in Closers(s, e) : j <= k

\* The header matches finditer yields at or after position from.
RECURSIVE HeaderMatches(_, _)
HeaderMatches(s, from) ==
    LET m == NextHeader(s, from)
    IN  IF m = NoMatch THEN {} ELSE {m} \cup HeaderMatches(s, m.end)

Iterated == xpc = "loop" /\ match.end > 0

\* C1: for a header that has a matching closing brace, the body is exactly the text
\* from just after the header's "{" up to, not including, the "}" at which the depth
\* counter first reaches 0, whatever the nesting inside; the record's body field is
\* that text, trimmed.
C1_BalancedBody ==
    (Iterated /\ Closers(content, match.end) # {}) =>
        LET j == MatchingClose(content, match.end)
        IN  /\ trait_body = Slice(content, match.end, j)
            /\ traits[Len(traits)].body = Strip(Slice(content, match.end, j))
            /\ Count(trait_body, "{") = Count(trait_body, "}")

\* A header whose body holds a nested brace pair two levels deep.
C1_Witness ==
    /\ Iterated
    /\ Closers(content, match.end) # {}
    /\ trait_body = <<"{", "{", "}", "}">>

\* C2 as stated: a header whose depth counter never returns to 0 is dropped: no
\* entry of the returned list is that declaration.
C2_UnbalancedDropped ==
    (xpc = "returned") =>
        \A m \in HeaderMatches(content, 0) :
            Closers(content, m.end) = {} =>
                \A i \in 1..Len(traits) :
                    traits[i].line # Count(Slice(content, 0, m.start), "\n") + 1


\* The names a type-alias keyword introduces on one line, in order.
TypeMatches(line) ==
    LET ts == SelectSeq(line, LAMBDA c : c \in TypeToks)
    IN  [i \in 1..Len(ts) |-> TypeNameOf(ts[i])]

\* The lines of the current body, each cut at its first "//".
StrippedLines ==
    LET lines == Split(trait_body, "\n")
    IN  [i \in 1..Len(lines) |-> StripComment(lines[i])]

\* C12: member detection and associated-type detection both run on the
\* comment-stripped body: what follows a "//" on a line adds nothing to methods,
\* method_count or assoc_types.
C12_CommentStripped ==
    Iterated =>
        LET r == traits[Len(traits)]
            fns == Flatten([i \in 1..Len(StrippedLines) |-> FnMatches(StrippedLines[i])])
            types == Flatten([i \in 1..Len(StrippedLines) |-> TypeMatches(StrippedLines[i])])
        IN  /\ r.methods = fns
            /\ r.method_count = Len(fns)
            /\ r.assoc_types = types

\* The 1-based number of the line on which the "trait" keyword of the current
\* header stands.
HeaderLine == Count(Slice(content, 0, KeywordPos(content, match.start)), "\n") + 1

\* C13: the line recorded for a declaration is the 1-based number of the line its
\* header (the "trait" keyword and name) stands on, also when blank or
\* whitespace-only lines precede the header.
C13_LineOfHeader ==
    Iterated => traits[Len(traits)].line = HeaderLine
----------------------------------------------------------------------------
(* check_trait_usage: audit_traits.py lines 88-123.                        *)

\* The trait name a token spells inside it ("" when none): what a pattern ending
\* in the name can match in that token.
NameIn(tok) ==
    IF tok \in {"Foo", "trait Foo"} THEN "Foo"
    ELSE IF tok \in {"Bar", "trait Bar"} THEN "Bar"
    ELSE ""

\* The token starts with the name (the patterns "dyn NAME" and ": NAME" are not
\* anchored at the name's end).
StartsWithName(tok, name) == tok = name

\* len(re.findall("impl.*NAME", text)): "." does not cross a line break and ".*" is
\* greedy, so a line gives one match, from its first "impl" to its last NAME after it.
ImplFindall(text, name) ==
    LET lines == Split(text, "\n")
        Hit(line) == \E i, j \in 1..Len(line) :
                        i < j /\ line[i] = "impl" /\ NameIn(line[j]) = name
    IN  Cardinality({k \in 1..Len(lines) : Hit(lines[k])})

\* len(re.findall(prefix + NAME, text)) for the literal prefixes "dyn " and ": ".
PrefixFindall(text, prefix, name) ==
    Cardinality({i \in 1..(Len(text) - 1) :
                    text[i] = prefix /\ StartsWithName(text[i + 1], name)})

\* re.search(pattern, text) is not None, for the three patterns.
ImplSearch(text, name) ==
    \E i, j \in 1..Len(text) :
        /\ i < j
        /\ text[i] = "impl"
        /\ NameIn(text[j]) = name
        /\ \A k \in i..j : text[k] # "\n"

PrefixSearch(text, prefix, name) ==
    \E i \in 1..(Len(text) - 1) : text[i] = prefix /\ StartsWithName(text[i + 1], name)

\* Mutant: each unit with a match counts once, however many matches it has.
TryBlockOncePerUnit(up, unit, name) ==
    LET u1 == IF ImplSearch(unit.text, name)
              THEN [up EXCEPT !.impl_count = @ + 1,
                              !.impl_files = Append(@, unit.path)]
              ELSE up
        u2 == IF PrefixSearch(unit.text, "dyn ", name)
              THEN [u1 EXCEPT !.dyn_usage = @ + 1,
                              !.dyn_files = Append(@, unit.path)]
              ELSE u1
    IN  IF PrefixSearch(unit.text, ": ", name)
        THEN [u2 EXCEPT !.bound_usage = @ + 1,
                        !.bound_files = Append(@, unit.path)]
        ELSE u2

\* The try block (lines 106-119) on a unit that open/read delivers.
TryBlock(up, unit, name) ==
    LET u1 == IF ImplSearch(unit.text, name)
              THEN [up EXCEPT !.impl_count = @ + ImplFindall(unit.text, name),
                              !.impl_files = Append(@, unit.path)]
              ELSE up
        u2 == IF PrefixSearch(unit.text, "dyn ", name)
              THEN [u1 EXCEPT !.dyn_usage = @ + PrefixFindall(unit.text, "dyn ", name),
                              !.dyn_files = Append(@, unit.path)]
              ELSE u1
    IN  IF PrefixSearch(unit.text, ": ", name)
        THEN [u2 EXCEPT !.bound_usage = @ + PrefixFindall(unit.text, ": ", name),
                        !.bound_files = Append(@, unit.path)]
        ELSE u2

\* Mutant: the unit is listed as an implementation unit before it is opened.
ExceptBranchLeaky(up, unit) == [up EXCEPT !.impl_files = Append(@, unit.path)]

\* The except branch (lines 120-121): open/read raised before any update; continue.
ExceptBranch(up, unit) == up

\* The body of the for loop (lines 105-121) on one unit.
ScanUnit(up, unit, name) ==
    IF unit.readable THEN TryBlock(up, unit, name) ELSE ExceptBranch(up, unit)

\* check_trait_usage(trait_name, root_dir) over the units of the corpus.
check_trait_usage(name, units) ==
    LET F[i \in 0..Len(units)] ==
            IF i = 0 THEN EmptyProfile ELSE ScanUnit(F[i - 1], units[i], name)
    IN  F[Len(units)]

\* The paths find_rust_files yields, by position.
UnitPaths == <<"src/a.rs", "src/b.rs", "tests/c.rs", "src/d_test.rs", "src/e.rs">>

\* The unit texts the usage scan is run on: no reference, one implementation, two
\* implementation lines and a dynamic use, repeated dynamic uses and a bound, two
\* "impl" on one line, references to another name only.
UsageTexts ==
    {<<"x">>,
     <<"impl", "Foo">>,
     <<"impl", "Foo", "\n", "impl", "Foo", "dyn ", "Foo">>,
     <<"dyn ", "Foo", "dyn ", "Foo", ": ", "Foo">>,
     <<"impl", "Foo", "impl", "Foo", "\n", ": ", "Foo", ": ", "Foo", ": ", "Foo">>,
     <<"impl", "Bar", "dyn ", "Bar">>}

Unreadable == [readable |-> FALSE, text |-> <<>>]

UnitContents(texts) == {Unreadable} \cup [readable : {TRUE}, text : texts]

\* The corpora of up to n units over the given contents, paths by position.
Corpora(contents, n) ==
    UNION {{[i \in 1..k |-> [path |-> UnitPaths[i],
                             readable |-> c[i].readable,
                             text |-> c[i].text]] : c \in [1..k -> contents]}
           : k \in 0..n}

InitUsage ==
    /\ corpus \in Corpora(UnitContents(UsageTexts), MaxUnits)
    /\ trait_name = "Foo"
    /\ uidx = 0
    /\ usage_patterns = EmptyProfile
    /\ upc = "loop"
    /\ IdleClassify
    /\ IdleExtract
    /\ IdleArc
    /\ IdleMain

\* One iteration of the for loop of line 104 on a unit that is read.
UsageScanUnit ==
    /\ upc = "loop"
    /\ uidx < Len(corpus)
    /\ corpus[uidx + 1].readable
    /\ usage_patterns' = ScanUnit(usage_patterns, corpus[uidx + 1], trait_name)
    /\ uidx' = uidx + 1
    /\ UNCHANGED <<corpus, trait_name, upc, classifyVars, extractVars, arcVars, mainVars>>

\* One iteration on a unit whose open/read raises: the except branch.
UsageSkipUnit ==
    /\ upc = "loop"
    /\ uidx < Len(corpus)
    /\ ~corpus[uidx + 1].readable
    /\ usage_patterns' = ScanUnit(usage_patterns, corpus[uidx + 1], trait_name)
    /\ uidx' = uidx + 1
    /\ UNCHANGED <<corpus, trait_name, upc, classifyVars, extractVars, arcVars, mainVars>>

\* The loop is exhausted: return usage_patterns (line 123).
UsageReturn ==
    /\ upc = "loop"
    /\ uidx = Len(corpus)
    /\ upc' = "returned"
    /\ UNCHANGED <<corpus, trait_name, uidx, usage_patterns, classifyVars, extractVars, arcVars, mainVars>>

NextUsage == UsageScanUnit \/ UsageSkipUnit \/ UsageReturn

SpecUsage == InitUsage /\ [][NextUsage]_vars

Readable(units) == SelectSeq(units, LAMBDA u : u.readable)

\* C7: a unit that raises on open/read/decode is skipped atomically and the scan goes
\* on: after any number of iterations the profile is the profile of the readable units
\* taken so far, and the scan reaches the end of the corpus.
C7_SkipAtomic ==
    /\ upc = "loop" =>
        usage_patterns = check_trait_usage(trait_name, Readable(SubSeq(corpus, 1, uidx)))
    /\ upc = "returned" =>
        /\ uidx = Len(corpus)
        /\ usage_patterns = check_trait_usage(trait_name, Readable(corpus))

\* A finished scan of a corpus with an unreadable unit between two units that match.
C7_Witness ==
    /\ upc = "returned"
    /\ Len(corpus) = 3
    /\ ~corpus[2].readable
    /\ usage_patterns.impl_files = <<"src/a.rs", "tests/c.rs">>
    /\ usage_patterns.dyn_usage = 2

\* Matches of one kind in one unit; an unreadable unit has none.
UnitMatches(kind, unit) ==
    IF ~unit.readable THEN 0
    ELSE IF kind = "impl" THEN ImplFindall(unit.text, trait_name)
    ELSE IF kind = "dyn" THEN PrefixFindall(unit.text, "dyn ", trait_name)
    ELSE PrefixFindall(unit.text, ": ", trait_name)

TotalMatches(kind) ==
    LET S[i \in 0..Len(corpus)] ==
            IF i = 0 THEN 0 ELSE S[i - 1] + UnitMatches(kind, corpus[i])
    IN  S[Len(corpus)]

MatchingPaths(kind) ==
    LET hit == SelectSeq(corpus, LAMBDA u : UnitMatches(kind, u) >= 1)
    IN  [i \in 1..Len(hit) |-> hit[i].path]

KindCount(kind) ==
    IF kind = "impl" THEN usage_patterns.impl_count
    ELSE IF kind = "dyn" THEN usage_patterns.dyn_usage
    ELSE usage_patterns.bound_usage

KindFiles(kind) ==
    IF kind = "impl" THEN usage_patterns.impl_files
    ELSE IF kind = "dyn" THEN usage_patterns.dyn_files
    ELSE usage_patterns.bound_files

\* C8: after the scan, each kind's count is the sum over the units of the unit's
\* number of matches, its unit list holds exactly the units with a match, each once;
\* so count >= len(units) and count = 0 exactly when the list is empty.
C8_CountsAndUnits ==
    upc = "returned" =>
        \A kind \in {"impl", "dyn", "bound"} :
            /\ KindCount(kind) = TotalMatches(kind)
            /\ KindFiles(kind) = MatchingPaths(kind)
            /\ Cardinality(Range(KindFiles(kind))) = Len(KindFiles(kind))
            /\ KindCount(kind) >= Len(KindFiles(kind))
            /\ (KindCount(kind) = 0) <=> (KindFiles(kind) = <<>>)

\* A finished scan where one unit holds three bound matches: count 3, one unit.
C8_Witness ==
    /\ upc = "returned"
    /\ usage_patterns.bound_usage = 3
    /\ Len(usage_patterns.bound_files) = 1
    /\ usage_patterns.impl_count > Len(usage_patterns.impl_files)

----------------------------------------------------------------------------
(* extract_arc_mutex_usage: audit_arc_mutex.py lines 34-60.                *)

\* A whole Arc<Mutex<...>> type expression is one token.
ArcToks ==
    {"Arc<Mutex<bool>>", "Arc<Mutex<Config>>", "Arc<Mutex<Vec<u8>>>",
     "Arc<Mutex<Sender<T>>>"}

\* match.group(1) of the pattern of line 41 on the token: [^>]+ stops at the first
\* ">", so a generic inner type loses its closing ">".
InnerTypeOf(tok) ==
    IF tok = "Arc<Mutex<bool>>" THEN "bool"
    ELSE IF tok = "Arc<Mutex<Config>>" THEN "Config"
    ELSE IF tok = "Arc<Mutex<Vec<u8>>>" THEN "Vec<u8"
    ELSE "Sender<T"

\* match.group(0) of the pattern on the token.
FullMatchOf(tok) ==
    IF tok = "Arc<Mutex<bool>>" THEN "Arc<Mutex<bool>>"
    ELSE IF tok = "Arc<Mutex<Config>>" THEN "Arc<Mutex<Config>>"
    ELSE IF tok = "Arc<Mutex<Vec<u8>>>" THEN "Arc<Mutex<Vec<u8>>"
    ELSE "Arc<Mutex<Sender<T>>"

\* Lines 47-49: the context of an occurrence on line line_num (1-based).
ContextWindow(lines, line_num) ==
    LET context_start == Max2(0, line_num - 3)
        context_end == Min2(Len(lines), line_num + 3)
    IN  Join(Slice(lines, context_start, context_end), "\n")

\* Lines 45-58: the dicts appended for the matches on one line, in order.
LineUsages(file_path, lines, line_num) ==
    LET line == lines[line_num]
        hits == SelectSeq(line, LAMBDA c : c \in ArcToks)
    IN  [i \in 1..Len(hits) |->
            [file |-> file_path,
             line |-> line_num,
             inner_type |-> InnerTypeOf(hits[i]),
             full_match |-> FullMatchOf(hits[i]),
             line_content |-> Strip(line),
             context |-> ContextWindow(lines, line_num)]]

\* extract_arc_mutex_usage(file_path) on a readable unit of text s.
extract_arc_mutex_usage(file_path, s) ==
    LET lines == Split(s, "\n")
    IN  Flatten([n \in 1..Len(lines) |-> LineUsages(file_path, lines, n)])

----------------------------------------------------------------------------
(* analyze_usage_pattern: audit_arc_mutex.py lines 62-118.                 *)

\* any(inner_type.startswith(t) for t in simple_types), line 73.
IsSimpleType(inner_type) == inner_type \in {"bool"}

\* 'sender' in inner_type.lower() or 'receiver' in inner_type.lower(), line 107.
IsChannelType(inner_type) == inner_type \in {"Sender<T"}

\* The token's lower-cased text contains one of thread_keywords (line 99).
HasThreadKeyword(tok) == tok \in {"spawn", "async", "Arc<Mutex<Sender<T>>>"}

\* The token's lower-cased text contains 'channel'.
HasChannelWord(tok) == tok \in {"channel"}

\* len(re.findall(lock_pattern, context)): ".lock()" directly followed by
\* ".unwrap()" or ".expect".
LocksIn(context) ==
    Cardinality({i \in 1..(Len(context) - 1) :
                    context[i] = ".lock()" /\ context[i + 1] \in {".unwrap()", ".expect"}})

\* The lines of the context on which \.lock\(\).*TAIL matches (greedy ".*" within one
\* line: one match a line).
LockThenCount(context, tail) ==
    LET lines == Split(context, "\n")
        Hit(line) == \E i, j \in 1..Len(line) :
                        i < j /\ line[i] = ".lock()" /\ line[j] = tail
    IN  Cardinality({k \in 1..Len(lines) : Hit(lines[k])})

\* The lines of the context on which let .* = .*\.lock\(\) matches.
LetLockCount(context) ==
    LET lines == Split(context, "\n")
        Hit(line) == \E i, j, k \in 1..Len(line) :
                        /\ i < j /\ j < k
                        /\ line[i] = "let " /\ line[j] = " = " /\ line[k] = ".lock()"
    IN  Cardinality({k \in 1..Len(lines) : Hit(lines[k])})

\* sum(len(re.findall(p, context)) for p in read_only_patterns), line 92.
ReadsIn(context) ==
    LockThenCount(context, ".get(") + LockThenCount(context, ".contains")
        + LockThenCount(context, ".iter(") + LetLockCount(context)

Issue(msg, count) == [msg |-> msg, count |-> count]

Recommend(msg, type) == [msg |-> msg, type |-> type]

Nothing == [issues |-> <<>>, recommendations |-> <<>>]

\* Whether each check of the function evaluates true on (usage, file_content).
CheckHolds(check, u, fc) ==
    IF check = "simple" THEN IsSimpleType(u.inner_type)
    ELSE IF check = "clones" THEN Count(fc, ".clone()") > 5
    ELSE IF check = "read_heavy"
         THEN 10 * ReadsIn(u.context) > 7 * LocksIn(u.context)
    ELSE IF check = "no_threading" THEN ~(\E i \in 1..Len(fc) : HasThreadKeyword(fc[i]))
    ELSE IF check = "channel"
         THEN IsChannelType(u.inner_type) \/ (\E i \in 1..Len(fc) : HasChannelWord(fc[i]))
    ELSE ".clone()" \in Range(u.line_content)
            /\ "Arc::new(Mutex::new" \in Range(u.line_content)

\* Mutant: the last check appends to recommendations instead of issues.
CheckAppendsWrongList(check, u, fc) ==
    IF ~CheckHolds(check, u, fc) THEN Nothing
    ELSE IF check = "simple"
         THEN [issues |-> <<Issue("Simple atomic type - consider using atomic primitives", 0)>>,
               recommendations |-> <<Recommend("Use Atomic<type> instead", u.inner_type)>>]
    ELSE IF check = "clones"
         THEN [issues |-> <<Issue("File has .clone() calls - possible excessive sharing",
                                  Count(fc, ".clone()"))>>,
               recommendations |-> <<>>]
    ELSE IF check = "read_heavy"
         THEN [issues |-> <<Issue("Appears to be read-heavy", 0)>>,
               recommendations |->
                 <<Recommend("Consider Arc<RwLock<T>> for better read concurrency", "")>>]
    ELSE IF check = "no_threading"
         THEN [issues |-> <<Issue("No obvious threading/async usage in file", 0)>>,
               recommendations |->
                 <<Recommend("Might not need Arc - consider Rc<RefCell<T>> or plain ownership", "")>>]
    ELSE IF check = "channel"
         THEN [issues |-> <<>>,
               recommendations |->
                 <<Recommend("Consider using channels for producer/consumer pattern", "")>>]
    ELSE [issues |-> <<>>,
          recommendations |->
            <<Recommend("Created and immediately cloned - might be defensive programming", "")>>]

\* What one check appends to issues and recommendations (lines 73-112).
CheckAppends(check, u, fc) ==
    IF ~CheckHolds(check, u, fc) THEN Nothing
    ELSE IF check = "simple"
         THEN [issues |-> <<Issue("Simple atomic type - consider using atomic primitives", 0)>>,
               recommendations |-> <<Recommend("Use Atomic<type> instead", u.inner_type)>>]
    ELSE IF check = "clones"
         THEN [issues |-> <<Issue("File has .clone() calls - possible excessive sharing",
                                  Count(fc, ".clone()"))>>,
               recommendations |-> <<>>]
    ELSE IF check = "read_heavy"
         THEN [issues |-> <<Issue("Appears to be read-heavy", 0)>>,
               recommendations |->
                 <<Recommend("Consider Arc<RwLock<T>> for better read concurrency", "")>>]
    ELSE IF check = "no_threading"
         THEN [issues |-> <<Issue("No obvious threading/async usage in file", 0)>>,
               recommendations |->
                 <<Recommend("Might not need Arc - consider Rc<RefCell<T>> or plain ownership", "")>>]
    ELSE IF check = "channel"
         THEN [issues |-> <<>>,
               recommendations |->
                 <<Recommend("Consider using channels for producer/consumer pattern", "")>>]
    ELSE [issues |-> <<Issue("Created and immediately cloned - might be defensive programming", 0)>>,
          recommendations |-> <<>>]

\* The checks in the order the function evaluates them.
Checks == <<"simple", "clones", "read_heavy", "no_threading", "channel", "defensive">>

\* Mutant: HIGH only above three issues.
SeverityOfStrict(issues) ==
    IF Len(issues) > 3 THEN "HIGH" ELSE IF Len(issues) >= 1 THEN "MEDIUM" ELSE "LOW"

\* Mutant: HIGH at exactly three issues only, so a fourth issue lowers the severity.
SeverityOfDip(issues) ==
    IF Len(issues) = 3 THEN "HIGH" ELSE IF Len(issues) >= 1 THEN "MEDIUM" ELSE "LOW"

\* The conditional expression of line 117.
SeverityOf(issues) ==
    IF Len(issues) >= 3 THEN "HIGH" ELSE IF Len(issues) >= 1 THEN "MEDIUM" ELSE "LOW"

analyze_usage_pattern(u, fc) ==
    LET F[i \in 0..Len(Checks)] ==
            IF i = 0 THEN Nothing
            ELSE LET a == CheckAppends(Checks[i], u, fc)
                 IN  [issues |-> F[i - 1].issues \o a.issues,
                      recommendations |-> F[i - 1].recommendations \o a.recommendations]
        r == F[Len(Checks)]
    IN  [issues |-> r.issues,
         recommendations |-> r.recommendations,
         severity |-> SeverityOf(r.issues)]

\* The unit texts the occurrence analysis is run on: up to two lines of lock use, the
\* line holding the occurrence, then an optional line with a threading keyword, an
\* optional line with "channel", and k lines with a ".clone()" call.
ArcLineMenu ==
    {<<tok>> : tok \in ArcToks}
        \cup {<<"Arc<Mutex<Config>>", " = ", "Arc::new(Mutex::new", ".clone()">>,
              <<"Arc<Mutex<bool>>", " = ", "Arc::new(Mutex::new", ".clone()">>,
              <<"Arc<Mutex<bool>>", "Arc<Mutex<Config>>">>}

LockBlockMenu ==
    {<<>>,
     <<<<".lock()", ".unwrap()">>>>,
     <<<<"let ", " = ", ".lock()", ".unwrap()">>>>,
     <<<<".lock()", ".get(">>>>,
     <<<<"let ", " = ", ".lock()", ".unwrap()">>, <<".lock()", ".expect">>>>}

CloneLines(k) == [i \in 1..k |-> <<".clone()">>]

ArcFiles ==
    {Join(locks \o <<arc>> \o thread \o channel \o CloneLines(k), "\n") :
        locks \in LockBlockMenu, arc \in ArcLineMenu,
        thread \in {<<>>, <<<<"spawn">>>>}, channel \in {<<>>, <<<<"channel">>>>},
        k \in 0..MaxClones}

ArcPath == "src/state.rs"

InitAnalyze ==
    /\ file_content \in ArcFiles
    /\ arc_usages = <<>>
    /\ aidx = 0
    /\ analysis = NoAnalysis
    /\ apc = "extract"
    /\ IdleClassify
    /\ IdleExtract
    /\ IdleUsage
    /\ IdleMain

\* usages = extract_arc_mutex_usage(rs_file) on the unit (main, line 133).
ArcExtract ==
    /\ apc = "extract"
    /\ arc_usages' = extract_arc_mutex_usage(ArcPath, file_content)
    /\ apc' = "analyze"
    /\ UNCHANGED <<file_content, aidx, analysis, classifyVars, extractVars, usageVars, mainVars>>

\* analysis = analyze_usage_pattern(usage, file_content) for the next occurrence
\* (main, lines 139-140).
ArcAnalyze ==
    /\ apc = "analyze"
    /\ aidx < Len(arc_usages)
    /\ analysis' = analyze_usage_pattern(arc_usages[aidx + 1], file_content)
    /\ aidx' = aidx + 1
    /\ UNCHANGED <<file_content, arc_usages, apc, classifyVars, extractVars, usageVars, mainVars>>

\* Every occurrence of the unit has been analysed.
ArcDone ==
    /\ apc = "analyze"
    /\ aidx = Len(arc_usages)
    /\ apc' = "done"
    /\ UNCHANGED <<file_content, arc_usages, aidx, analysis,
                   classifyVars, extractVars, usageVars, mainVars>>

NextAnalyze == ArcExtract \/ ArcAnalyze \/ ArcDone

SpecAnalyze == InitAnalyze /\ [][NextAnalyze]_vars

Analysed == apc \in {"analyze", "done"} /\ aidx > 0

\* The checks that are true for the occurrence just analysed.
TrueChecks ==
    {c \in Range(Checks) : CheckHolds(c, arc_usages[aidx], file_content)}

\* C9: the severity is HIGH when there are three or more issues, MEDIUM when there
\* are one or two, LOW when there is none.
C9_SeverityThresholds ==
    Analysed =>
        LET n == Len(analysis.issues)
        IN  /\ n >= 3 => analysis.severity = "HIGH"
            /\ n \in {1, 2} => analysis.severity = "MEDIUM"
            /\ n = 0 => analysis.severity = "LOW"
            /\ analysis.severity \in {"HIGH", "MEDIUM", "LOW"}

\* An occurrence with exactly three issues, rated HIGH.
C9_Witness ==
    /\ Analysed
    /\ Len(analysis.issues) = 3
    /\ analysis.severity = "HIGH"

\* C10 as stated: every true check appends exactly one issue and at most one
\* recommendation, a false check appends nothing; so there are never more
\* recommendations than issues, and a LOW occurrence has no recommendation.
C10_Original ==
    Analysed =>
        /\ \A c \in Range(Checks) :
            LET a == CheckAppends(c, arc_usages[aidx], file_content)
            IN  IF c \in TrueChecks
                THEN Len(a.issues) = 1 /\ Len(a.recommendations) <= 1
                ELSE a = Nothing
        /\ Len(analysis.recommendations) <= Len(analysis.issues)
        /\ analysis.severity = "LOW" => analysis.recommendations = <<>>

\* C10 amended: every true check other than the channel check appends exactly one
\* issue and at most one recommendation; the channel check, when true, appends one
\* recommendation and no issue; a false check appends nothing.  So the issues are as
\* many as the true checks other than the channel check, there is at most one
\* recommendation more than issues, and a LOW occurrence has no recommendation but
\* the channel one.
C10_Amended ==
    Analysed =>
        /\ \A c \in Range(Checks) :
            LET a == CheckAppends(c, arc_usages[aidx], file_content)
            IN  IF c \notin TrueChecks THEN a = Nothing
                ELSE IF c = "channel"
                     THEN Len(a.issues) = 0 /\ Len(a.recommendations) = 1
                     ELSE Len(a.issues) = 1 /\ Len(a.recommendations) <= 1
        /\ Len(analysis.issues) = Cardinality(TrueChecks \ {"channel"})
        /\ Len(analysis.recommendations) <= Len(analysis.issues) + 1
        /\ Len(analysis.recommendations) <= Len(analysis.issues)
                + (IF "channel" \in TrueChecks THEN 1 ELSE 0)
        /\ analysis.severity = "LOW" =>
                \A i \in 1..Len(analysis.recommendations) :
                    /\ "channel" \in TrueChecks
                    /\ i = 1
                    /\ analysis.recommendations[i].msg
                            = "Consider using channels for producer/consumer pattern"

\* A LOW occurrence whose only true check is the channel check: one recommendation.
C10_Witness ==
    /\ Analysed
    /\ TrueChecks = {"channel"}
    /\ analysis.severity = "LOW"

\* The order LOW < MEDIUM < HIGH.
SeverityRank(severity) ==
    IF severity = "LOW" THEN 0 ELSE IF severity = "MEDIUM" THEN 1 ELSE 2

\* The checks that are true for an occurrence u of a unit fc.
ChecksTrueFor(u, fc) == {c \in Range(Checks) : CheckHolds(c, u, fc)}

\* For every occurrence of every unit of ArcFiles: the checks true for it and the
\* severity analyze_usage_pattern gives it.
AnalysisOutcomes ==
    UNION {LET us == extract_arc_mutex_usage(ArcPath, fc)
           IN  {[checks |-> ChecksTrueFor(us[i], fc),
                 severity |-> analyze_usage_pattern(us[i], fc).severity] :
                    i \in 1..Len(us)} :
           fc \in ArcFiles}

\* C11: severity is monotone in the set of true checks: whenever the checks true for
\* one input include all the checks true for another, the first input's severity is
\* not lower than the other's in the order LOW < MEDIUM < HIGH.
C11_SeverityMonotone ==
    Analysed =>
        \A o \in AnalysisOutcomes :
            /\ TrueChecks \subseteq o.checks =>
                    SeverityRank(o.severity) >= SeverityRank(analysis.severity)
            /\ o.checks \subseteq TrueChecks =>
                    SeverityRank(analysis.severity) >= SeverityRank(o.severity)

\* A MEDIUM occurrence, another input whose true checks strictly include its own and
\* is rated HIGH, and a third with four issues whose true checks include both.
C11_Witness ==
    /\ Analysed
    /\ analysis.severity = "MEDIUM"
    /\ \E o, q \in AnalysisOutcomes :
            /\ TrueChecks \subseteq o.checks /\ TrueChecks # o.checks
            /\ o.severity = "HIGH"
            /\ Cardinality(o.checks \ {"channel"}) = 3
            /\ o.checks \subseteq q.checks
            /\ Cardinality(q.checks \ {"channel"}) = 4
    /\ Len(analysis.recommendations) = 1


\* Unit texts for the context window: an occurrence line with up to MaxAround lines
\* before it and up to MaxAround lines after it, neighbouring lines all different.
FillerMenu ==
    <<<<"let ", " = ", ".lock()", ".unwrap()">>, <<".lock()", ".get(">>,
      <<"spawn">>, <<".clone()">>, <<"channel">>>>

FillerLines(first, k) ==
    [i \in 1..k |-> FillerMenu[((first + i - 2) % Len(FillerMenu)) + 1]]

ContextFiles ==
    {Join(FillerLines(1, before) \o <<arc>> \o FillerLines(before + 1, after), "\n") :
        before \in 0..MaxAround, after \in 0..MaxAround, arc \in ArcLineMenu}

InitContext ==
    /\ file_content \in ContextFiles
    /\ arc_usages = <<>>
    /\ aidx = 0
    /\ analysis = NoAnalysis
    /\ apc = "extract"
    /\ IdleClassify
    /\ IdleExtract
    /\ IdleUsage
    /\ IdleMain

SpecContext == InitContext /\ [][NextAnalyze]_vars

\* C15: the context attached to an occurrence on line L is the lines L-3 .. L+3 of
\* the unit (the matched line, three lines before and three after), clipped at the
\* start and the end of the unit.
C15_SymmetricWindow ==
    Analysed =>
        LET u == arc_usages[aidx]
            lines == Split(file_content, "\n")
            first == Max2(1, u.line - 3)
            last == Min2(Len(lines), u.line + 3)
        IN  u.context = Join(Slice(lines, first - 1, last), "\n")

----------------------------------------------------------------------------
(* main of audit_traits.py (lines 166-259) and of audit_arc_mutex.py       *)
(* (lines 120-262), from the first loop to the report's summary.           *)

\* is_test_file (audit_arc_mutex.py lines 22-32) on the paths of UnitPaths: the path
\* has a /tests/ segment, or ends in _test.rs.
is_test_file(path) == path \in {"tests/c.rs", "src/d_test.rs"}

\* by_method_count as the report counts it (line 247): method count -> number of
\* declarations; line 194 has created the key 1.
ByMethodCount(ts) ==
    [k \in {ts[i].method_count : i \in 1..Len(ts)} \cup {1} |->
        Cardinality({i \in 1..Len(ts) : ts[i].method_count = k})]

\* by_severity as the report counts it (line 223): lines 179-180 have created the
\* three keys.
BySeverity(us) ==
    [k \in {"HIGH", "MEDIUM", "LOW"} |->
        Cardinality({i \in 1..Len(us) : us[i].analysis.severity = k})]

\* Mutant: every declaration is passed on, whatever its method count.
SingleMethodTraitsAll(ts) == ts

\* by_method_count[1] (lines 184-194): the single-method declarations, in order.
SingleMethodTraits(ts) == SelectSeq(ts, LAMBDA t : t.method_count = 1)

\* The unit texts the trait audit is run on: a single-method trait nobody refers to,
\* a three-method trait implemented twice and used dynamically once, references to
\* the first trait, a generic single-method trait with an associated type.
TraitAuditTexts ==
    {<<"trait Foo", "{", "fn f", "}">>,
     <<"trait Bar", "{", "fn f", "\n", "fn g", "\n", "fn h", "}", "\n",
       "impl", "Bar", "\n", "impl", "Bar", "\n", "dyn ", "Bar">>,
     <<"impl", "Foo", "\n", "dyn ", "Foo">>,
     <<"trait Bar", "<", ">", ": ", "Foo", "{", "type Item", "\n", "fn g", "}">>}

\* The unit texts the Arc<Mutex> audit is run on.
ArcAuditTexts ==
    {<<"x">>,
     <<"Arc<Mutex<bool>>">>,
     <<"let ", " = ", ".lock()", ".unwrap()", "\n", "Arc<Mutex<Config>>", "\n", "spawn">>,
     <<"Arc<Mutex<Vec<u8>>>", "\n", "async", "channel">>}

InitAudit ==
    /\ audit \in {"trait", "arc"}
    /\ corpus \in Corpora(UnitContents(IF audit = "trait" THEN TraitAuditTexts
                                        ELSE ArcAuditTexts), MaxUnits)
    /\ trait_name = ""
    /\ uidx = 0
    /\ usage_patterns = EmptyProfile
    /\ upc = "idle"
    /\ mpc = "extract"
    /\ midx = 0
    /\ all_traits = <<>>
    /\ sidx = 0
    /\ categorized = NoCategorized
    /\ all_usages = <<>>
    /\ test_usages = <<>>
    /\ prod_usages = <<>>
    /\ report = <<>>
    /\ IdleClassify
    /\ IdleExtract
    /\ IdleArc

notMainVars == <<classifyVars, extractVars, arcVars, trait_name, uidx, usage_patterns, upc>>

\* Trait audit, lines 176-178, on a unit extract_traits can read.
TraitMainExtract ==
    /\ audit = "trait" /\ mpc = "extract"
    /\ midx < Len(corpus)
    /\ corpus[midx + 1].readable
    /\ all_traits' = all_traits
            \o extract_traits(corpus[midx + 1].path, corpus[midx + 1].text)
    /\ midx' = midx + 1
    /\ UNCHANGED <<audit, mpc, corpus, sidx, categorized, all_usages, test_usages,
                   prod_usages, report, notMainVars>>

\* Trait audit, line 177, on a unit whose open/read raises in extract_traits (line 19):
\* nothing catches the exception and main ends with it.
TraitMainRaises ==
    /\ audit = "trait" /\ mpc = "extract"
    /\ midx < Len(corpus)
    /\ ~corpus[midx + 1].readable
    /\ mpc' = "aborted"
    /\ UNCHANGED <<audit, midx, corpus, all_traits, sidx, categorized, all_usages,
                   test_usages, prod_usages, report, notMainVars>>

\* Trait audit, lines 183-204: the extraction loop is done, the declarations are
\* grouped by method count and the classification loop starts.
TraitMainGroup ==
    /\ audit = "trait" /\ mpc = "extract"
    /\ midx = Len(corpus)
    /\ mpc' = "classify"
    /\ UNCHANGED <<audit, midx, corpus, all_traits, sidx, categorized, all_usages,
                   test_usages, prod_usages, report, notMainVars>>

\* Trait audit, lines 206-216: profile and classify the next single-method trait.
TraitMainClassify ==
    /\ audit = "trait" /\ mpc = "classify"
    /\ sidx < Len(SingleMethodTraits(all_traits))
    /\ LET trait == SingleMethodTraits(all_traits)[sidx + 1]
           u == check_trait_usage(trait.name, corpus)
           v == analyze_trait_necessity(trait, u)
       IN  categorized' =
             [categorized EXCEPT ![v.category] =
                Append(@, [trait |-> trait, usage |-> u,
                           keep_reasons |-> v.keep_reasons,
                           remove_reasons |-> v.remove_reasons])]
    /\ sidx' = sidx + 1
    /\ UNCHANGED <<audit, mpc, midx, corpus, all_traits, all_usages, test_usages,
                   prod_usages, report, notMainVars>>

\* Trait audit, lines 243-254: the report's summary.
TraitMainReport ==
    /\ audit = "trait" /\ mpc = "classify"
    /\ sidx = Len(SingleMethodTraits(all_traits))
    /\ report' =
         <<[total_traits |-> Len(all_traits),
            single_method_traits |-> Len(SingleMethodTraits(all_traits)),
            by_method_count |-> ByMethodCount(all_traits),
            categorization |-> [c \in DOMAIN categorized |-> Len(categorized[c])]]>>
    /\ mpc' = "done"
    /\ UNCHANGED <<audit, midx, corpus, all_traits, sidx, categorized, all_usages,
                   test_usages, prod_usages, notMainVars>>

\* Lines 139-148 for the occurrences of one unit: each gets its analysis.
WithAnalysis(usages, text) ==
    [i \in 1..Len(usages) |->
        [file |-> usages[i].file,
         line |-> usages[i].line,
         inner_type |-> usages[i].inner_type,
         full_match |-> usages[i].full_match,
         line_content |-> usages[i].line_content,
         context |-> usages[i].context,
         analysis |-> analyze_usage_pattern(usages[i], text)]]

\* Arc<Mutex> audit, lines 132-148, on a unit extract_arc_mutex_usage can read.
ArcMainUnit ==
    /\ audit = "arc" /\ mpc = "extract"
    /\ midx < Len(corpus)
    /\ corpus[midx + 1].readable
    /\ LET unit == corpus[midx + 1]
           found == WithAnalysis(extract_arc_mutex_usage(unit.path, unit.text), unit.text)
       IN  /\ all_usages' = all_usages \o found
           /\ test_usages' = IF is_test_file(unit.path) THEN test_usages \o found
                             ELSE test_usages
           /\ prod_usages' = IF is_test_file(unit.path) THEN prod_usages
                             ELSE prod_usages \o found
    /\ midx' = midx + 1
    /\ UNCHANGED <<audit, mpc, corpus, all_traits, sidx, categorized, report, notMainVars>>

\* Arc<Mutex> audit, line 133, on a unit whose open/read raises in
\* extract_arc_mutex_usage (line 36): nothing catches the exception.
ArcMainRaises ==
    /\ audit = "arc" /\ mpc = "extract"
    /\ midx < Len(corpus)
    /\ ~corpus[midx + 1].readable
    /\ mpc' = "aborted"
    /\ UNCHANGED <<audit, midx, corpus, all_traits, sidx, categorized, all_usages,
                   test_usages, prod_usages, report, notMainVars>>

\* sorted(by_file.items(), key=count, reverse=True) (line 161): by_file is in
\* first-seen order and the sort is stable.
RECURSIVE SortedFiles(_)
SortedFiles(usages) ==
    LET files == {usages[i].file : i \in 1..Len(usages)}
        N(f) == Cardinality({i \in 1..Len(usages) : usages[i].file = f})
        First(f) == CHOOSE i \in 1..Len(usages) :
                        usages[i].file = f /\ \A j \in 1..(i - 1) : usages[j].file # f
    IN  IF usages = <<>> THEN <<>>
        ELSE LET top == CHOOSE f \in files :
                            \A g \in files :
                                N(f) > N(g) \/ (N(f) = N(g) /\ First(f) <= First(g))
             IN  <<[file |-> top, count |-> N(top), is_test |-> is_test_file(top)]>>
                    \o SortedFiles(SelectSeq(usages, LAMBDA u : u.file # top))

\* Arc<Mutex> audit, lines 155-248: the grouping and the report.
ArcMainReport ==
    /\ audit = "arc" /\ mpc = "extract"
    /\ midx = Len(corpus)
    /\ report' =
         <<[total |-> Len(all_usages),
            test |-> Len(test_usages),
            production |-> Len(prod_usages),
            by_severity |-> BySeverity(prod_usages),
            unique_types |-> Cardinality({prod_usages[i].inner_type :
                                            i \in 1..Len(prod_usages)}),
            top_files |-> Slice(SortedFiles(all_usages), 0, 20)]>>
    /\ mpc' = "done"
    /\ UNCHANGED <<audit, midx, corpus, all_traits, sidx, categorized, all_usages,
                   test_usages, prod_usages, notMainVars>>

NextAudit ==
    \/ TraitMainExtract
    \/ TraitMainRaises
    \/ TraitMainGroup
    \/ TraitMainClassify
    \/ TraitMainReport
    \/ ArcMainUnit
    \/ ArcMainRaises
    \/ ArcMainReport

SpecAudit == InitAudit /\ [][NextAudit]_vars

\* C6 as stated: a run over a corpus holding a unit that cannot be read or decoded
\* does not abort: it is never ended by the exception.
C6_RunNeverAborts == mpc # "aborted"

\* The two units of the end-to-end scenario: a single-member declaration nothing
\* refers to, and a three-member declaration implemented twice and used dynamically
\* once.
SingleMemberUnit == <<"trait Foo", "{", "fn f", "}">>

ThreeMemberUnit ==
    <<"trait Bar", "{", "fn f", "\n", "fn g", "\n", "fn h", "}", "\n",
      "impl", "Bar", "\n", "impl", "Bar", "\n", "dyn ", "Bar">>

\* A finished trait audit of a corpus of exactly those two units, in either order.
ScenarioRun ==
    /\ audit = "trait"
    /\ mpc = "done"
    /\ Len(corpus) = 2
    /\ corpus[1].readable /\ corpus[2].readable
    /\ {corpus[1].text, corpus[2].text} = {SingleMemberUnit, ThreeMemberUnit}

\* The names of the declarations listed under a category.
Listed(c) == {categorized[c][i].trait.name : i \in 1..Len(categorized[c])}

\* C14: for the corpus of the two scenario units, the run's categorization holds
\* exactly one DEFINITELY_REMOVE entry, the single-member declaration, no
\* MAYBE_REMOVE and no KEEP_AS_IS entry, and the three-member declaration is listed
\* under no category.
C14_EndToEnd ==
    ScenarioRun =>
        /\ report[1].categorization =
                [c \in {"DEFINITELY_REMOVE", "MAYBE_REMOVE", "KEEP_AS_IS"} |->
                    IF c = "DEFINITELY_REMOVE" THEN 1 ELSE 0]
        /\ Len(categorized["DEFINITELY_REMOVE"]) = 1
        /\ categorized["DEFINITELY_REMOVE"][1].trait.name = "Foo"
        /\ categorized["DEFINITELY_REMOVE"][1].trait.method_count = 1
        /\ categorized["MAYBE_REMOVE"] = <<>>
        /\ categorized["KEEP_AS_IS"] = <<>>
        /\ \A c \in DOMAIN categorized : "Bar" \notin Listed(c)

\* The scenario run has finished, with both declarations extracted: Foo with one
\* method, Bar with three, and two implementations and one dynamic use of Bar in
\* the corpus.
C14_Witness ==
    /\ ScenarioRun
    /\ report[1].total_traits = 2
    /\ report[1].single_method_traits = 1
    /\ \E i \in 1..2 : all_traits[i].name = "Bar" /\ all_traits[i].method_count = 3
    /\ check_trait_usage("Bar", corpus).impl_count = 2
    /\ check_trait_usage("Bar", corpus).dyn_usage = 1
    /\ check_trait_usage("Foo", corpus).impl_count = 0


\* The single-method declarations the classification loop has handled so far.
Classified == Slice(SingleMethodTraits(all_traits), 0, sidx)

\* The category the stated rule gives an entry of the categorization.
StatedCategory(e) ==
    IF e.keep_reasons = <<>> THEN "DEFINITELY_REMOVE"
    ELSE IF Len(e.keep_reasons) = 1 /\ e.usage.impl_count <= 1 THEN "MAYBE_REMOVE"
    ELSE "KEEP_AS_IS"

\* C16: in a trait-audit run only declarations with method_count = 1 are classified,
\* each with one or two remove-reasons; a classified declaration is DEFINITELY_REMOVE
\* exactly when it has no keep-reason, MAYBE_REMOVE exactly when it has one
\* keep-reason and at most one implementation, KEEP_AS_IS otherwise; each lands in
\* exactly one category list, and the three counts sum to the number of
\* single-method declarations.
C16_ClassifiedSingles ==
    audit = "trait" =>
        /\ \A c \in DOMAIN categorized : \A i \in 1..Len(categorized[c]) :
                LET e == categorized[c][i]
                IN  /\ e.trait.method_count = 1
                    /\ Len(e.remove_reasons) \in {1, 2}
                    /\ e.remove_reasons[1].rule = "Single method trait"
                    /\ c = StatedCategory(e)
        /\ \A k \in 1..Len(Classified) :
                Cardinality({<<c, i>> \in (DOMAIN categorized) \X (1..Len(Classified)) :
                                /\ i <= Len(categorized[c])
                                /\ categorized[c][i].trait = Classified[k]}) = 1
        /\ Len(categorized["DEFINITELY_REMOVE"]) + Len(categorized["MAYBE_REMOVE"])
                + Len(categorized["KEEP_AS_IS"]) = Len(Classified)
        /\ mpc = "done" =>
                /\ Len(Classified) = Len(SingleMethodTraits(all_traits))
                /\ report[1].categorization["DEFINITELY_REMOVE"]
                        + report[1].categorization["MAYBE_REMOVE"]
                        + report[1].categorization["KEEP_AS_IS"]
                            = report[1].single_method_traits

\* A finished run over three declarations, one of them with three methods and left
\* unclassified, the two others classified into different categories.
C16_Witness ==
    /\ audit = "trait"
    /\ mpc = "done"
    /\ Len(all_traits) = 3
    /\ report[1].single_method_traits = 2
    /\ Len(categorized["DEFINITELY_REMOVE"]) = 1
    /\ Len(categorized["KEEP_AS_IS"]) = 1
    /\ Len(categorized["KEEP_AS_IS"][1].remove_reasons) = 1

=============================================================================
